---- MODULE Spec2Model ----
(***************************************************************************)
(* Model of the admin content-management API: the auth routes (login,     *)
(* register, verify), the blog routes with their image uploads, and the   *)
(* newsletter upload download counter.  Each route handler is an action.  *)
(* Handlers whose claims are about concurrent requests are split at their *)
(* await points; the others run to completion in one step.                *)
(***************************************************************************)
EXTENDS Integers, Sequences, FiniteSets, TLC

\* ------------------------------------------------------------------ bounds

\* Last clock value (hours) when the lockout is followed hour by hour.
MaxLockTime == 2
\* Last clock value (hours), and the hours between two looks at the clock,
\* when tokens are followed to their expiry.
MaxTime == 36
TokenTick == 12
\* The largest random draw of a stored filename.
MaxRand == 1
\* The views and downloads after which no further request is followed.
MaxViews == 3
MaxDownloads == 2
\* The uploads multer writes at one time, and the last clock value then.
MaxWriting == 2
MaxNameTime == 1

\* ------------------------------------------------------- program constants

\* expiresIn: '24h' of both jwt.sign calls, in hours.
TokenTTL == 24
\* Threshold and lock window of the User model (models/User.js is not part of
\* the sources; the threshold is the specification's "five consecutive failed
\* logins", the window is counted in hours).
MaxLoginAttempts == 5
LockDuration == 2

\* --------------------------------------------------------------- auth: data

SuperName == "admin"
SuperPass == "admin123"
SuperId == "admin-user"
SuperRole == "admin"

Usernames == {"admin", "bob"}
\* Secrets a login may carry, and the secrets accounts are registered with.
Passwords == {"admin123", "pw", "bad"}
RegisterPasswords == {"pw"}
Emails == {"a@x", "b@x"}
Roles == {"admin"}
\* ObjectIds handed out by the store, in order; an id is never reused.
IdPool == <<"u1", "u2">>
NoTime == -1

NoToken == [kind |-> "none", id |-> "", username |-> "", role |-> "", iat |-> 0, exp |-> 0]
\* A bearer string that was not signed with JWT_SECRET.
Forged == [kind |-> "forged", id |-> "u1", username |-> "bob", role |-> "admin", iat |-> 0, exp |-> 0]

VARIABLES
  now,        \* wall clock, Date.now()
  users,      \* the User collection: id -> document
  nextUser,   \* index in IdPool of the next ObjectId
  held,       \* the token the client holds (the bearer of the next verify)
  streak,     \* per account: failed-credential answers since it was last reset
  authReq,    \* the last request an auth route handled
  authResp,   \* its response
  blogs,      \* the Blog collection: id -> document
  nextBlog,   \* index in BlogIdPool of the next ObjectId
  files,      \* the files in uploads/blog-images
  blogReq,    \* the last request a blog route handled
  blogResp,   \* its response, with the file operations the request made
  viewPc,     \* per client: where its GET /api/blogs/:id request stands
  viewDoc,    \* per client: the document its findById returned
  uploads,    \* the NewsletterUpload collection: id -> document
  nextUpload, \* index in UploadIdPool of the next ObjectId
  nlFiles,    \* the files in uploads/newsletters
  nlDeleting, \* the uploads a delete request has unlinked and not yet deleted
  nlReq,      \* the last request a newsletter upload route handled
  nlResp,     \* its response
  writing,    \* the stored filenames of the uploads multer is writing
  testimonials,    \* the Testimonial collection: id -> document
  nextTestimonial, \* index in TestimonialIdPool of the next ObjectId
  tReq,       \* the last request a testimonial route handled, with the
              \* document its id named when the request arrived
  tResp,      \* its response
  tPrev,      \* the request before it, with its response status
  submissions,    \* the ContactSubmission collection: id -> document
  nextSubmission, \* index in SubmissionIdPool of the next ObjectId
  sReq,       \* the last request a contact-submission route handled, with
              \* the document its id named when the request arrived
  sResp,      \* its response
  subscribers,    \* the NewsletterSubscriber collection: id -> document
  nextSubscriber, \* index in SubscriberIdPool of the next ObjectId
  campaigns,  \* the NewsletterCampaign collection, in the order of the saves
  subReq,     \* the last request a subscriber or send route handled, with the
              \* document it found and the number of recipients it selected
  subResp,    \* its response
  listed,     \* the Blog collection as GET /api/blogs reads it, in the order
              \* of the requested sort
  listReq,    \* the last query GET /api/blogs handled
  listResp,   \* its response
  tList,      \* the last public testimonial listing: its query and the
              \* documents it returned
  likePc,     \* per client: where its POST /api/blogs/:id/like request stands
  likeSeen,   \* the likes values the like responses carried, in order
  likeOrig,   \* the likes of the first blog before any like request ran
  tgPc,       \* per client: where its toggle-active request stands
  tgDoc,      \* per client: the document its findById returned
  tgOrig,     \* the testimonials as they were before any toggle-active ran
  tgDone      \* per testimonial id: the toggle-active requests answered 200

authVars == <<users, nextUser, held, streak, authReq, authResp>>
blogVars == <<blogs, nextBlog, files, blogReq, blogResp>>
viewVars == <<viewPc, viewDoc>>
nlVars == <<uploads, nextUpload, nlFiles, nlDeleting, nlReq, nlResp>>
nameVars == <<writing>>
testimonialVars == <<testimonials, nextTestimonial, tReq, tResp, tPrev>>
contactVars == <<submissions, nextSubmission, sReq, sResp>>
subscriberVars == <<subscribers, nextSubscriber, campaigns, subReq, subResp>>
listVars == <<listed, listReq, listResp>>
publicVars == <<tList>>
likeVars == <<likePc, likeSeen, likeOrig>>
toggleVars == <<tgPc, tgDoc, tgOrig, tgDone>>
lateVars == <<publicVars, likeVars, toggleVars>>

\* The state of the routers that keep plain collections.
crudVars == <<testimonialVars, contactVars, subscriberVars, listVars, lateVars>>

vars == <<now, authVars, blogVars, viewVars, nlVars, nameVars, crudVars>>

\* What the routes of one router leave alone.
nonAuth == <<blogVars, viewVars, nlVars, nameVars, crudVars>>
nonBlog == <<authVars, viewVars, nlVars, nameVars, crudVars>>
nonNewsletter == <<authVars, blogVars, viewVars, nameVars, crudVars>>
nonCrud == <<authVars, blogVars, viewVars, nlVars, nameVars>>

Req(op, username, password, token) ==
  [op |-> op, username |-> username, password |-> password, token |-> token]

Resp(status, error, token) == [status |-> status, error |-> error, token |-> token]

\* User.findOne({ username })
FindByName(username) ==
  {id \in DOMAIN users : users[id].username = username}

\* user.isLocked()
isLocked(user, t) ==
  user.lockedAt # NoTime /\ user.lockedAt + LockDuration > t

\* user.comparePassword(password)
comparePassword(user, password) == user.password = password

\* user.incLoginAttempts(): a failure after the lock window starts a new count.
incLoginAttempts(user, t) ==
  IF user.lockedAt # NoTime /\ ~isLocked(user, t)
  THEN [user EXCEPT !.loginAttempts = 1, !.lockedAt = NoTime]
  ELSE IF user.loginAttempts + 1 >= MaxLoginAttempts
       THEN [user EXCEPT !.loginAttempts = @ + 1, !.lockedAt = t]
       ELSE [user EXCEPT !.loginAttempts = @ + 1]

\* user.resetLoginAttempts()
resetLoginAttempts(user) ==
  [user EXCEPT !.loginAttempts = 0, !.lockedAt = NoTime]

\* jwt.sign(payload, JWT_SECRET, { expiresIn: '24h' })
JwtSign(id, username, role, t) ==
  [kind |-> "signed", id |-> id, username |-> username, role |-> role,
   iat |-> t, exp |-> t + TokenTTL]

\* jwt.verify with ignoreExpiration.
JwtVerifyIgnoreExpiration(token, t) == token.kind = "signed"

\* jwt.verify(token, JWT_SECRET): TRUE when it returns the claims, FALSE when
\* it throws (bad signature, or the clock has reached exp).
JwtVerify(token, t) == token.kind = "signed" /\ t < token.exp

\* The hard-coded account gives way to a stored account of its name.
IsSuperuserShadowed(username, password) ==
  /\ username = SuperName
  /\ password = SuperPass
  /\ \A id \in DOMAIN users : users[id].username # username

\* The equality test that opens the login handler.
IsSuperuser(username, password) ==
  username = SuperName /\ password = SuperPass

\* The credential check made before the lock check.
LoginBranchPasswordFirst(user, password, t) ==
  IF ~(user.password = password) THEN "mismatch"
  ELSE IF user.lockedAt # NoTime /\ user.lockedAt + LockDuration > t THEN "locked"
  ELSE "match"

\* The branch of the login handler taken for a stored account.
LoginBranch(user, password, t) ==
  IF isLocked(user, t) THEN "locked"
  ELSE IF ~comparePassword(user, password) THEN "mismatch"
  ELSE "match"

\* The branch of the verify handler taken once jwt.verify returned `decoded`.
VerifyBranch(decoded) ==
  IF decoded.username = SuperName THEN "hardcoded"
  ELSE IF decoded.id \notin DOMAIN users \/ ~users[decoded.id].active THEN "missing"
  ELSE "stored"

\* The client keeps the token it holds or replaces it by the one just issued.
Receives(token) == held' \in {held, token} \ {NoToken}

AuthInit ==
  /\ now = 0
  /\ users = [id \in {} |-> 0]
  /\ nextUser = 1
  /\ held = NoToken
  /\ streak = [id \in {} |-> 0]
  /\ authReq = Req("none", "", "", NoToken)
  /\ authResp = Resp(0, "", NoToken)

\* POST /api/auth/login
Login(username, password) ==
  /\ authReq' = Req("login", username, password, NoToken)
  /\ IF IsSuperuser(username, password)
     THEN /\ authResp' = Resp(200, "", JwtSign(SuperId, SuperName, SuperRole, now))
          /\ Receives(authResp'.token)
          /\ UNCHANGED <<now, users, nextUser, streak, nonAuth>>
     ELSE IF FindByName(username) = {}
     THEN /\ authResp' = Resp(401, "Invalid credentials", NoToken)
          /\ UNCHANGED <<now, users, nextUser, held, streak, nonAuth>>
     ELSE \E id \in FindByName(username) :
            LET user == users[id]
                branch == LoginBranch(user, password, now)
            IN CASE branch = "locked" ->
                      /\ authResp' = Resp(423, "Account temporarily locked", NoToken)
                      /\ UNCHANGED <<now, users, nextUser, held, streak, nonAuth>>
                 [] branch = "mismatch" ->
                      /\ users' = [users EXCEPT ![id] = incLoginAttempts(user, now)]
                      /\ streak' = [streak EXCEPT ![id] =
                                      IF @ >= MaxLoginAttempts THEN 1 ELSE @ + 1]
                      /\ authResp' = Resp(401, "Invalid credentials", NoToken)
                      /\ UNCHANGED <<now, nextUser, held, nonAuth>>
                 [] branch = "match" ->
                      /\ users' = [users EXCEPT ![id] =
                                     IF user.loginAttempts > 0
                                     THEN resetLoginAttempts(user) ELSE user]
                      /\ streak' = [streak EXCEPT ![id] = 0]
                      /\ authResp' = Resp(200, "", JwtSign(id, user.username, user.role, now))
                      /\ Receives(authResp'.token)
                      /\ UNCHANGED <<now, nextUser, nonAuth>>

\* POST /api/auth/register
Register(username, email, password, role) ==
  /\ authReq' = Req("register", username, password, NoToken)
  /\ IF \E id \in DOMAIN users : users[id].username = username \/ users[id].email = email
     THEN /\ authResp' = Resp(400, "User already exists with this username or email", NoToken)
          /\ UNCHANGED <<now, users, nextUser, held, streak, nonAuth>>
     ELSE /\ nextUser <= Len(IdPool)
          /\ LET id == IdPool[nextUser]
                 user == [username |-> username, email |-> email, password |-> password,
                          role |-> role, active |-> TRUE, loginAttempts |-> 0,
                          lockedAt |-> NoTime]
             IN /\ users' = [i \in DOMAIN users \cup {id} |->
                               IF i = id THEN user ELSE users[i]]
                /\ streak' = [i \in DOMAIN streak \cup {id} |->
                               IF i = id THEN 0 ELSE streak[i]]
          /\ nextUser' = nextUser + 1
          /\ authResp' = Resp(201, "", NoToken)
          /\ UNCHANGED <<now, held, nonAuth>>

\* GET /api/auth/verify with `token` as the bearer of the Authorization header
Verify(token) ==
  /\ authReq' = Req("verify", "", "", token)
  /\ authResp' =
       IF token = NoToken THEN Resp(401, "No token provided", NoToken)
       ELSE IF ~JwtVerify(token, now) THEN Resp(401, "Invalid token", NoToken)
       ELSE IF VerifyBranch(token) = "missing"
            THEN Resp(401, "User not found or inactive", NoToken)
            ELSE Resp(200, "", NoToken)
  /\ UNCHANGED <<now, users, nextUser, held, streak, nonAuth>>

\* The store's administrator removes an account, or switches its active flag.
StoreRemove(id) ==
  /\ id \in DOMAIN users
  /\ users' = [i \in DOMAIN users \ {id} |-> users[i]]
  /\ streak' = [i \in DOMAIN streak \ {id} |-> streak[i]]
  /\ UNCHANGED <<now, nextUser, held, authReq, authResp, nonAuth>>

StoreSetActive(id, flag) ==
  /\ id \in DOMAIN users
  /\ users[id].active # flag
  /\ users' = [users EXCEPT ![id].active = flag]
  /\ UNCHANGED <<now, nextUser, held, streak, authReq, authResp, nonAuth>>

\* Time passes: the clock advances by `step` hours, up to `horizon`.
Tick(step, horizon) ==
  /\ now + step <= horizon
  /\ now' = now + step
  /\ UNCHANGED <<authVars, nonAuth>>

\* --------------------------------------------------------------- blogs: data

\* ObjectIds of the Blog collection, handed out in order and never reused.
BlogIdPool == <<"b1", "b2">>
BlogIds == {BlogIdPool[i] : i \in 1..Len(BlogIdPool)}
\* An id that does not cast to an ObjectId.
BadId == "not-an-id"

\* A field the request body does not carry.
Absent == "<absent>"
RequiredFields == {"title", "content", "author", "category"}
Statuses == {"draft", "published", "scheduled"}

\* fileSize limit of the blog-image upload, and the sizes tried, in MiB.
MaxImageSize == 10
\* Media types and original names, cut in pieces: "image/png" is
\* <<"image", "/", "png">>, "a.png" is <<"a", ".png">>.
ImagePrefix == <<"image", "/">>
NoUpload == [mimetype |-> << >>, originalname |-> << >>, size |-> 0]
File(mimetype, originalname, size) ==
  [mimetype |-> mimetype, originalname |-> originalname, size |-> size]
Uploads ==
  { File(<<"image", "/", "png">>, <<"a", ".png">>, 1),
    File(<<"image", "/", "png">>, <<"a", ".png">>, 11),
    File(<<"text", "/", "plain">>, <<"a", ".png">>, 1),
    File(<<"image">>, <<"a", ".png">>, 1) }

\* No stored file: the image field of a blog without image.
NoFile == [prefix |-> "", t |-> NoTime, r |-> 0, ext |-> ""]

\* The request bodies tried.
Body(title, rest, status) ==
  [title |-> title, content |-> rest, author |-> rest, category |-> rest,
   status |-> status, publishDate |-> NoTime]
Payloads ==
  { Body("a", "x", Absent), Body("a", "x", "published"),
    Body(Absent, Absent, "scheduled"), Body("", Absent, Absent) }

\* String.prototype.startsWith
StartsWith(s, prefix) ==
  Len(s) >= Len(prefix) /\ SubSeq(s, 1, Len(prefix)) = prefix

\* path.extname(file.originalname)
ExtName(originalname) ==
  IF Len(originalname) > 1 THEN originalname[Len(originalname)] ELSE ""

\* storage.filename: prefix + Date.now() + '-' + Math.round(Math.random() * 1E9)
\* + extension, with `r` the rounded random draw.
StorageFilename(prefix, t, r, originalname) ==
  [prefix |-> prefix, t |-> t, r |-> r, ext |-> ExtName(originalname)]

\* A filter that lets every media type through.
FileFilterAcceptAll(file) == TRUE

\* fileFilter of the blog-image upload
FileFilter(file) == StartsWith(file.mimetype, ImagePrefix)

\* upload.single('image'): what multer does with the request's file part
\* before the handler runs.
UploadStage(file) ==
  IF file = NoUpload THEN "none"
  ELSE IF ~FileFilter(file) THEN "rejected"
  ELSE IF file.size > MaxImageSize THEN "toolarge"
  ELSE "stored"

\* A request: the route, the :id of its path, the media type of its file part.
BlogReq(op, id, file) == [op |-> op, id |-> id, mimetype |-> file.mimetype]

BlogResp(status, error, stored, removed) ==
  [status |-> status, error |-> error, stored |-> stored, removed |-> removed]

\* Schema validation of a new document: the required strings and the status enum.
CreateValid(data) ==
  /\ \A f \in RequiredFields : data[f] # Absent /\ data[f] # ""
  /\ data.status = Absent \/ data.status \in Statuses

\* Update validators (runValidators: true) look at the paths the update sets.
UpdateValid(data) ==
  /\ \A f \in RequiredFields : data[f] # ""
  /\ data.status = Absent \/ data.status \in Statuses

\* publishDate defaults to now when the body says published and has no date.
WithPublishDate(data, t) ==
  IF data.status = "published" /\ data.publishDate = NoTime
  THEN [data EXCEPT !.publishDate = t] ELSE data

\* new Blog(blogData): the body's fields, the schema defaults for the rest.
NewBlog(data, image) ==
  [title |-> data.title, content |-> data.content, author |-> data.author,
   category |-> data.category,
   status |-> IF data.status = Absent THEN "draft" ELSE data.status,
   publishDate |-> data.publishDate, image |-> image, thumbnail |-> image,
   views |-> 0, likes |-> 0]

\* findByIdAndUpdate(id, blogData): the fields the body carries are set.
UpdatedBlog(blog, data, image) ==
  [title |-> IF data.title = Absent THEN blog.title ELSE data.title,
   content |-> IF data.content = Absent THEN blog.content ELSE data.content,
   author |-> IF data.author = Absent THEN blog.author ELSE data.author,
   category |-> IF data.category = Absent THEN blog.category ELSE data.category,
   status |-> IF data.status = Absent THEN blog.status ELSE data.status,
   publishDate |-> IF data.publishDate = NoTime THEN blog.publishDate
                   ELSE data.publishDate,
   image |-> IF image = NoFile THEN blog.image ELSE image,
   thumbnail |-> IF image = NoFile THEN blog.thumbnail ELSE image,
   views |-> blog.views, likes |-> blog.likes]

\* A delete that leaves the image on disk.
DeleteUnlinksNothing(blog, fs) == {}

\* The image file the delete handler removes: if (blog.image) and it exists.
DeleteUnlinks(blog, fs) ==
  IF blog.image # NoFile THEN {blog.image} \cap fs ELSE {}

\* The old image the update handler removes before it updates the record.
UpdateUnlinks(id, fs) ==
  IF id \in DOMAIN blogs /\ blogs[id].image # NoFile
  THEN {blogs[id].image} \cap fs ELSE {}

BlogInit ==
  /\ blogs = [id \in {} |-> 0]
  /\ nextBlog = 1
  /\ files = {}
  /\ blogReq = BlogReq("none", "", NoUpload)
  /\ blogResp = BlogResp(0, "", {}, {})

\* The error middleware answers what multer refuses; the handler does not run.
UploadRefused(stage) ==
  /\ blogResp' = BlogResp(500, IF stage = "rejected"
                               THEN "Only image files are allowed!"
                               ELSE "File too large", {}, {})
  /\ UNCHANGED <<blogs, nextBlog, files>>

\* POST /api/blogs
CreateBlog(payload, file, r) ==
  LET stage == UploadStage(file)
      name == StorageFilename("blog", now, r, file.originalname)
      image == IF stage = "stored" THEN name ELSE NoFile
      stored == IF stage = "stored" THEN {name} ELSE {}
      data == WithPublishDate(payload, now)
  IN /\ blogReq' = BlogReq("create", "", file)
     /\ IF stage \in {"rejected", "toolarge"}
        THEN UploadRefused(stage)
        ELSE IF ~CreateValid(data)
        THEN /\ files' = files \cup stored
             /\ blogResp' = BlogResp(500, "Failed to create blog", stored, {})
             /\ UNCHANGED <<blogs, nextBlog>>
        ELSE /\ nextBlog <= Len(BlogIdPool)
             /\ files' = files \cup stored
             /\ blogs' = [i \in DOMAIN blogs \cup {BlogIdPool[nextBlog]} |->
                            IF i = BlogIdPool[nextBlog] THEN NewBlog(data, image)
                            ELSE blogs[i]]
             /\ nextBlog' = nextBlog + 1
             /\ blogResp' = BlogResp(201, "", stored, {})
     /\ UNCHANGED <<now, nonBlog>>

\* PUT /api/blogs/:id
UpdateBlog(id, payload, file, r) ==
  LET stage == UploadStage(file)
      name == StorageFilename("blog", now, r, file.originalname)
      image == IF stage = "stored" THEN name ELSE NoFile
      stored == IF stage = "stored" THEN {name} ELSE {}
      data == WithPublishDate(payload, now)
      removed == IF stage = "stored" THEN UpdateUnlinks(id, files \cup stored) ELSE {}
      disk == (files \cup stored) \ removed
  IN /\ blogReq' = BlogReq("update", id, file)
     /\ IF stage \in {"rejected", "toolarge"}
        THEN UploadRefused(stage)
        ELSE IF id = BadId
        THEN /\ files' = files \cup stored
             /\ blogResp' = BlogResp(400, "Invalid blog ID", stored, {})
             /\ UNCHANGED <<blogs, nextBlog>>
        ELSE IF ~UpdateValid(data)
        THEN /\ files' = disk
             /\ blogResp' = BlogResp(500, "Failed to update blog", stored, removed)
             /\ UNCHANGED <<blogs, nextBlog>>
        ELSE IF id \notin DOMAIN blogs
        THEN /\ files' = disk
             /\ blogResp' = BlogResp(404, "Blog not found", stored, removed)
             /\ UNCHANGED <<blogs, nextBlog>>
        ELSE /\ files' = disk
             /\ blogs' = [blogs EXCEPT ![id] = UpdatedBlog(@, data, image)]
             /\ blogResp' = BlogResp(200, "", stored, removed)
             /\ UNCHANGED nextBlog
     /\ UNCHANGED <<now, nonBlog>>

\* DELETE /api/blogs/:id
DeleteBlog(id) ==
  /\ blogReq' = BlogReq("delete", id, NoUpload)
  /\ IF id = BadId
     THEN /\ blogResp' = BlogResp(400, "Invalid blog ID", {}, {})
          /\ UNCHANGED <<blogs, nextBlog, files>>
     ELSE IF id \notin DOMAIN blogs
     THEN /\ blogResp' = BlogResp(404, "Blog not found", {}, {})
          /\ UNCHANGED <<blogs, nextBlog, files>>
     ELSE LET removed == DeleteUnlinks(blogs[id], files)
          IN /\ files' = files \ removed
             /\ blogs' = [i \in DOMAIN blogs \ {id} |-> blogs[i]]
             /\ blogResp' = BlogResp(200, "", {}, removed)
             /\ UNCHANGED nextBlog
  /\ UNCHANGED <<now, nonBlog>>

\* Math.random() is drawn when multer names a file it stores.
Draws(file) == IF UploadStage(file) = "stored" THEN 0..MaxRand ELSE {0}

DoCreateBlog ==
  \E payload \in Payloads, file \in Uploads \cup {NoUpload} :
    \E r \in Draws(file) : CreateBlog(payload, file, r)
DoUpdateBlog ==
  \E id \in BlogIds \cup {BadId}, payload \in Payloads,
     file \in Uploads \cup {NoUpload} :
    \E r \in Draws(file) : UpdateBlog(id, payload, file, r)
DoDeleteBlog == \E id \in BlogIds \cup {BadId} : DeleteBlog(id)

BlogNext ==
  \/ DoCreateBlog
  \/ DoUpdateBlog
  \/ DoDeleteBlog

\* ------------------------------------------------- blogs: concurrent reads

Clients == {"c1", "c2"}
NoDoc == [id |-> "", views |-> 0]

ViewInit ==
  /\ viewPc = [c \in Clients |-> "idle"]
  /\ viewDoc = [c \in Clients |-> NoDoc]

\* GET /api/blogs/:id, up to the await of findById
GetBlogFind(c, id) ==
  /\ viewPc[c] = "idle"
  /\ blogReq' = BlogReq("get", id, NoUpload)
  /\ IF id = BadId
     THEN /\ blogResp' = BlogResp(400, "Invalid blog ID", {}, {})
          /\ UNCHANGED viewVars
     ELSE IF id \notin DOMAIN blogs
     THEN /\ blogResp' = BlogResp(404, "Blog not found", {}, {})
          /\ UNCHANGED viewVars
     ELSE /\ blogs[id].views < MaxViews
          /\ viewDoc' = [viewDoc EXCEPT ![c] = [id |-> id, views |-> blogs[id].views]]
          /\ viewPc' = [viewPc EXCEPT ![c] = "loaded"]
          /\ UNCHANGED blogResp
  /\ UNCHANGED <<now, blogs, nextBlog, files, authVars, nlVars, nameVars, crudVars>>

\* blog.views += 1; blog.save(): the value written is the one read, plus one.
SavedViews(doc) == doc.views + 1

\* GET /api/blogs/:id, from blog.views += 1 to the response
GetBlogSave(c) ==
  /\ viewPc[c] = "loaded"
  /\ blogReq' = BlogReq("get", viewDoc[c].id, NoUpload)
  /\ IF viewDoc[c].id \in DOMAIN blogs
     THEN /\ blogs' = [blogs EXCEPT ![viewDoc[c].id].views = SavedViews(viewDoc[c])]
          /\ blogResp' = BlogResp(200, "", {}, {})
     ELSE /\ blogResp' = BlogResp(500, "Failed to fetch blog", {}, {})
          /\ UNCHANGED blogs
  /\ viewPc' = [viewPc EXCEPT ![c] = "idle"]
  /\ viewDoc' = [viewDoc EXCEPT ![c] = NoDoc]
  /\ UNCHANGED <<now, nextBlog, files, authVars, nlVars, nameVars, crudVars>>

DoGetBlogFind == \E c \in Clients, id \in BlogIds \cup {BadId} : GetBlogFind(c, id)
DoGetBlogSave == \E c \in Clients : GetBlogSave(c)

ViewNext ==
  \/ DoGetBlogFind
  \/ DoGetBlogSave

\* ----------------------------------------------------- newsletter uploads

UploadIdPool == <<"n1", "n2">>
UploadIds == {UploadIdPool[i] : i \in 1..Len(UploadIdPool)}
\* fileSize limit of the newsletter upload, in MiB.
MaxPdfSize == 50
PdfType == <<"application", "/", "pdf">>
PdfUploads ==
  { File(PdfType, <<"n", ".pdf">>, 1), File(PdfType, <<"n", ".pdf">>, 51),
    File(<<"text", "/", "plain">>, <<"n", ".pdf">>, 1) }
Categories == {"monthly", "weekly", "special", "announcement", "update"}
\* The name, category and date fields of an upload request.
Metas ==
  { [name |-> "n", category |-> "monthly", date |-> "d"],
    [name |-> "n", category |-> "daily", date |-> "d"],
    [name |-> "", category |-> "monthly", date |-> "d"] }

NlResp(status, error) == [status |-> status, error |-> error]
NlReq(op, id) == [op |-> op, id |-> id]

\* upload.single('pdf'): what multer does with the request's file part.
PdfUploadStage(file) ==
  IF file = NoUpload THEN "none"
  ELSE IF file.mimetype # PdfType THEN "rejected"
  ELSE IF file.size > MaxPdfSize THEN "toolarge"
  ELSE "stored"

NlInit ==
  /\ uploads = [id \in {} |-> 0]
  /\ nextUpload = 1
  /\ nlFiles = {}
  /\ nlDeleting = {}
  /\ nlReq = NlReq("none", "")
  /\ nlResp = NlResp(0, "")

\* POST /api/newsletter/upload
UploadNewsletter(meta, file, r) ==
  LET stage == PdfUploadStage(file)
      name == StorageFilename("newsletter", now, r, file.originalname)
  IN /\ nlReq' = NlReq("upload", "")
     /\ IF stage \in {"rejected", "toolarge"}
        THEN /\ nlResp' = NlResp(500, IF stage = "rejected"
                                      THEN "Only PDF files are allowed!"
                                      ELSE "File too large")
             /\ UNCHANGED <<uploads, nextUpload, nlFiles>>
        ELSE IF stage = "none"
        THEN /\ nlResp' = NlResp(400, "PDF file is required")
             /\ UNCHANGED <<uploads, nextUpload, nlFiles>>
        ELSE IF meta.name = "" \/ meta.category = "" \/ meta.date = ""
        THEN /\ nlFiles' = nlFiles \cup {name}
             /\ nlResp' = NlResp(400, "Name, category, and date are required")
             /\ UNCHANGED <<uploads, nextUpload>>
        ELSE IF meta.category \notin Categories
        THEN /\ nlFiles' = nlFiles \cup {name}
             /\ nlResp' = NlResp(500, "Failed to upload newsletter")
             /\ UNCHANGED <<uploads, nextUpload>>
        ELSE /\ nextUpload <= Len(UploadIdPool)
             /\ nlFiles' = nlFiles \cup {name}
             /\ uploads' = [i \in DOMAIN uploads \cup {UploadIdPool[nextUpload]} |->
                              IF i = UploadIdPool[nextUpload]
                              THEN [filename |-> name, downloadCount |-> 0,
                                    active |-> TRUE]
                              ELSE uploads[i]]
             /\ nextUpload' = nextUpload + 1
             /\ nlResp' = NlResp(201, "")
     /\ UNCHANGED <<now, nlDeleting, nonNewsletter>>

\* DELETE /api/newsletter/uploads/:id, up to the await of fs.remove
DeleteUploadUnlink(id) ==
  /\ nlReq' = NlReq("delete", id)
  /\ IF id = BadId
     THEN /\ nlResp' = NlResp(400, "Invalid newsletter ID")
          /\ UNCHANGED <<nlFiles, nlDeleting>>
     ELSE IF id \notin DOMAIN uploads
     THEN /\ nlResp' = NlResp(404, "Newsletter not found")
          /\ UNCHANGED <<nlFiles, nlDeleting>>
     ELSE /\ id \notin nlDeleting
          /\ nlFiles' = nlFiles \ {uploads[id].filename}
          /\ nlDeleting' = nlDeleting \cup {id}
          /\ UNCHANGED nlResp
  /\ UNCHANGED <<now, uploads, nextUpload, nonNewsletter>>

\* DELETE /api/newsletter/uploads/:id, from findByIdAndDelete to the response
DeleteUploadRecord(id) ==
  /\ id \in nlDeleting
  /\ nlReq' = NlReq("delete", id)
  /\ uploads' = [i \in DOMAIN uploads \ {id} |-> uploads[i]]
  /\ nlDeleting' = nlDeleting \ {id}
  /\ nlResp' = NlResp(200, "")
  /\ UNCHANGED <<now, nextUpload, nlFiles, nonNewsletter>>

\* newsletter.downloadCount += 1; newsletter.save(), made before the file is
\* looked for.
Counted(upload) == [upload EXCEPT !.downloadCount = @ + 1]

\* GET /api/newsletter/uploads/:id/download
Download(id) ==
  /\ nlReq' = NlReq("download", id)
  /\ IF id = BadId
     THEN /\ nlResp' = NlResp(400, "Invalid newsletter ID")
          /\ UNCHANGED uploads
     ELSE IF id \notin DOMAIN uploads
     THEN /\ nlResp' = NlResp(404, "Newsletter not found")
          /\ UNCHANGED uploads
     ELSE /\ uploads[id].downloadCount < MaxDownloads
          /\ uploads' = [uploads EXCEPT ![id] = Counted(@)]
          /\ nlResp' = IF uploads[id].filename \notin nlFiles
                       THEN NlResp(404, "File not found")
                       ELSE NlResp(200, "")
  /\ UNCHANGED <<now, nextUpload, nlFiles, nlDeleting, nonNewsletter>>

DoUploadNewsletter ==
  \E meta \in Metas, file \in PdfUploads \cup {NoUpload} :
    \E r \in (IF PdfUploadStage(file) = "stored" THEN 0..MaxRand ELSE {0}) :
      UploadNewsletter(meta, file, r)
DoDeleteUploadUnlink == \E id \in UploadIds \cup {BadId} : DeleteUploadUnlink(id)
DoDeleteUploadRecord == \E id \in UploadIds : DeleteUploadRecord(id)
DoDownload == \E id \in UploadIds \cup {BadId} : Download(id)

DownloadNext ==
  \/ DoUploadNewsletter
  \/ DoDeleteUploadUnlink
  \/ DoDeleteUploadRecord
  \/ DoDownload

\* --------------------------------------------------- concurrent uploads

Purposes == {"blog", "newsletter"}

NameInit == writing = << >>

\* multer calls storage.filename for an upload and starts to write the file.
UploadBegin(purpose, originalname, r) ==
  /\ Len(writing) < MaxWriting
  /\ writing' = Append(writing, StorageFilename(purpose, now, r, originalname))
  /\ UNCHANGED <<now, authVars, blogVars, viewVars, nlVars, crudVars>>

\* The file of upload `i` is written; its handler takes over.
UploadEnd(i) ==
  /\ i \in 1..Len(writing)
  /\ writing' = [j \in 1..(Len(writing) - 1) |->
                   IF j < i THEN writing[j] ELSE writing[j + 1]]
  /\ UNCHANGED <<now, authVars, blogVars, viewVars, nlVars, crudVars>>

DoUploadBegin ==
  \E purpose \in Purposes, originalname \in {<<"a", ".png">>, <<"b">>},
     r \in 0..MaxRand :
    UploadBegin(purpose, originalname, r)
DoUploadEnd == \E i \in 1..Len(writing) : UploadEnd(i)

NameNext ==
  \/ DoUploadBegin
  \/ DoUploadEnd
  \/ Tick(1, MaxNameTime)

\* ---------------------------------------------------------- testimonials

\* ObjectIds of the Testimonial collection, handed out in order.
TestimonialIdPool == <<"t1", "t2">>
TestimonialIds == {TestimonialIdPool[i] : i \in 1..Len(TestimonialIdPool)}

\* testimonialSchema.rating: min and max.
MinRating == 1
MaxRating == 5

TestimonialFields == {"name", "company", "rating", "active", "featured"}
NoTestimonial ==
  [name |-> "", company |-> "", rating |-> 0, active |-> FALSE, featured |-> FALSE]

\* A request body: `given` holds the names of the fields it carries, the
\* other fields are undefined.
TestimonialBody(given, rating, active, featured) ==
  [given |-> given, name |-> "n", company |-> "c", rating |-> rating,
   active |-> active, featured |-> featured]
Has(body, field) == field \in body.given

CreateBodies ==
  { TestimonialBody(given, rating, TRUE, TRUE) :
      given \in { {"name", "company", "rating"}, {"company", "rating"},
                  {"name", "company"}, {"name", "company", "rating", "featured"} },
      rating \in {0, 1, 6} }
UpdateBodies ==
  { TestimonialBody(given, rating, FALSE, FALSE) :
      given \in { {}, {"rating"}, {"active"}, {"rating", "active"} },
      rating \in {0, 5, 6} }

\* The document a route's findById returns, as the request arrives.
Snapshot(id) ==
  IF id \in DOMAIN testimonials
  THEN [found |-> TRUE, doc |-> testimonials[id]]
  ELSE [found |-> FALSE, doc |-> NoTestimonial]

TReq(op, id) == [op |-> op, id |-> id, before |-> Snapshot(id)]

\* A testimonial route answers: the request and its response are recorded.
TAnswer(op, id, status, error) ==
  /\ tReq' = TReq(op, id)
  /\ tResp' = [status |-> status, error |-> error]
  /\ tPrev' = [op |-> tReq.op, id |-> tReq.id, status |-> tResp.status,
               before |-> tReq.before]

\* !name || !company || !rating
MissingRequired(body) ==
  \/ ~Has(body, "name")
  \/ ~Has(body, "company")
  \/ ~Has(body, "rating")
  \/ body.rating = 0

\* rating < 1 || rating > 5
RatingOutOfRange(rating) == rating < 1 \/ rating > 5

\* new Testimonial({...}) with the destructuring defaults of the route.
NewTestimonial(body) ==
  [name |-> body.name, company |-> body.company, rating |-> body.rating,
   active |-> IF Has(body, "active") THEN body.active ELSE TRUE,
   featured |-> IF Has(body, "featured") THEN body.featured ELSE FALSE]

\* The schema's validation of a document on save.
TestimonialValid(doc) ==
  /\ doc.name # ""
  /\ doc.company # ""
  /\ doc.rating >= MinRating
  /\ doc.rating <= MaxRating

\* Update validators that let every rating pass.
UpdateTestimonialValidNone(body) == TRUE

\* runValidators: true validates the paths the update sets.
UpdateTestimonialValid(body) ==
  Has(body, "rating") => (body.rating >= MinRating /\ body.rating <= MaxRating)

\* findByIdAndUpdate sets the fields the body carries; undefined ones are
\* stripped from the update.
UpdatedTestimonial(doc, body) ==
  [f \in TestimonialFields |-> IF Has(body, f) THEN body[f] ELSE doc[f]]

\* A toggle that always activates.
ToggledActiveSet(doc) == [doc EXCEPT !.active = TRUE]

\* testimonial.active = !testimonial.active
ToggledActive(doc) == [doc EXCEPT !.active = ~@]

\* A toggle-featured that also resets active.
ToggledFeaturedResets(doc) == [doc EXCEPT !.featured = ~@, !.active = TRUE]

\* testimonial.featured = !testimonial.featured
ToggledFeatured(doc) == [doc EXCEPT !.featured = ~@]

TestimonialInit ==
  /\ testimonials = [id \in {} |-> NoTestimonial]
  /\ nextTestimonial = 1
  /\ tReq = [op |-> "none", id |-> "", before |-> [found |-> FALSE, doc |-> NoTestimonial]]
  /\ tResp = [status |-> 0, error |-> ""]
  /\ tPrev = [op |-> "none", id |-> "", status |-> 0,
              before |-> [found |-> FALSE, doc |-> NoTestimonial]]

\* POST /api/testimonials
CreateTestimonial(body) ==
  /\ nextTestimonial <= Len(TestimonialIdPool)
  /\ LET id == TestimonialIdPool[nextTestimonial]
         doc == NewTestimonial(body)
     IN  IF MissingRequired(body)
           THEN /\ TAnswer("create", "", 400, "Missing required fields")
                /\ UNCHANGED <<testimonials, nextTestimonial>>
         ELSE IF RatingOutOfRange(body.rating)
           THEN /\ TAnswer("create", "", 400, "Rating must be between 1 and 5")
                /\ UNCHANGED <<testimonials, nextTestimonial>>
         ELSE IF ~TestimonialValid(doc)
           THEN /\ TAnswer("create", "", 500, "Failed to create testimonial")
                /\ UNCHANGED <<testimonials, nextTestimonial>>
         ELSE /\ testimonials' =
                   [i \in DOMAIN testimonials \cup {id} |->
                      IF i = id THEN doc ELSE testimonials[i]]
              /\ nextTestimonial' = nextTestimonial + 1
              /\ TAnswer("create", id, 201, "")
  /\ UNCHANGED <<now, nonCrud, contactVars, subscriberVars, listVars, lateVars>>

\* GET /api/testimonials/:id
GetTestimonial(id) ==
  /\ IF id = BadId THEN TAnswer("get", id, 400, "Invalid testimonial ID")
     ELSE IF id \notin DOMAIN testimonials
       THEN TAnswer("get", id, 404, "Testimonial not found")
     ELSE TAnswer("get", id, 200, "")
  /\ UNCHANGED <<testimonials, nextTestimonial>>
  /\ UNCHANGED <<now, nonCrud, contactVars, subscriberVars, listVars, lateVars>>

\* PUT /api/testimonials/:id
UpdateTestimonial(id, body) ==
  /\ IF Has(body, "rating") /\ body.rating # 0 /\ RatingOutOfRange(body.rating)
       THEN /\ TAnswer("update", id, 400, "Rating must be between 1 and 5")
            /\ UNCHANGED testimonials
     ELSE IF id = BadId
       THEN /\ TAnswer("update", id, 400, "Invalid testimonial ID")
            /\ UNCHANGED testimonials
     ELSE IF ~UpdateTestimonialValid(body)
       THEN /\ TAnswer("update", id, 500, "Failed to update testimonial")
            /\ UNCHANGED testimonials
     ELSE IF id \notin DOMAIN testimonials
       THEN /\ TAnswer("update", id, 404, "Testimonial not found")
            /\ UNCHANGED testimonials
     ELSE /\ testimonials' =
               [testimonials EXCEPT ![id] = UpdatedTestimonial(@, body)]
          /\ TAnswer("update", id, 200, "")
  /\ UNCHANGED nextTestimonial
  /\ UNCHANGED <<now, nonCrud, contactVars, subscriberVars, listVars, lateVars>>

\* DELETE /api/testimonials/:id
DeleteTestimonial(id) ==
  /\ IF id = BadId
       THEN /\ TAnswer("delete", id, 400, "Invalid testimonial ID")
            /\ UNCHANGED testimonials
     ELSE IF id \notin DOMAIN testimonials
       THEN /\ TAnswer("delete", id, 404, "Testimonial not found")
            /\ UNCHANGED testimonials
     ELSE /\ testimonials' =
               [i \in DOMAIN testimonials \ {id} |-> testimonials[i]]
          /\ TAnswer("delete", id, 200, "")
  /\ UNCHANGED nextTestimonial
  /\ UNCHANGED <<now, nonCrud, contactVars, subscriberVars, listVars, lateVars>>

\* PUT /api/testimonials/:id/toggle-active
ToggleActive(id) ==
  /\ IF id = BadId
       THEN /\ TAnswer("toggle-active", id, 400, "Invalid testimonial ID")
            /\ UNCHANGED testimonials
     ELSE IF id \notin DOMAIN testimonials
       THEN /\ TAnswer("toggle-active", id, 404, "Testimonial not found")
            /\ UNCHANGED testimonials
     ELSE /\ testimonials' = [testimonials EXCEPT ![id] = ToggledActive(@)]
          /\ TAnswer("toggle-active", id, 200, "")
  /\ UNCHANGED nextTestimonial
  /\ UNCHANGED <<now, nonCrud, contactVars, subscriberVars, listVars, lateVars>>

\* PUT /api/testimonials/:id/toggle-featured
ToggleFeatured(id) ==
  /\ IF id = BadId
       THEN /\ TAnswer("toggle-featured", id, 400, "Invalid testimonial ID")
            /\ UNCHANGED testimonials
     ELSE IF id \notin DOMAIN testimonials
       THEN /\ TAnswer("toggle-featured", id, 404, "Testimonial not found")
            /\ UNCHANGED testimonials
     ELSE /\ testimonials' = [testimonials EXCEPT ![id] = ToggledFeatured(@)]
          /\ TAnswer("toggle-featured", id, 200, "")
  /\ UNCHANGED nextTestimonial
  /\ UNCHANGED <<now, nonCrud, contactVars, subscriberVars, listVars, lateVars>>

DoCreateTestimonial == \E body \in CreateBodies : CreateTestimonial(body)
DoGetTestimonial == \E id \in TestimonialIds \cup {BadId} : GetTestimonial(id)
DoUpdateTestimonial ==
  \E id \in TestimonialIds \cup {BadId}, body \in UpdateBodies :
    UpdateTestimonial(id, body)
DoDeleteTestimonial == \E id \in TestimonialIds \cup {BadId} : DeleteTestimonial(id)
DoToggleActive == \E id \in TestimonialIds \cup {BadId} : ToggleActive(id)
DoToggleFeatured == \E id \in TestimonialIds \cup {BadId} : ToggleFeatured(id)

TestimonialNext ==
  \/ DoCreateTestimonial
  \/ DoGetTestimonial
  \/ DoUpdateTestimonial
  \/ DoDeleteTestimonial
  \/ DoToggleActive
  \/ DoToggleFeatured

\* --------------------------------------------------- contact submissions

SubmissionIdPool == <<"s1", "s2">>
SubmissionIds == {SubmissionIdPool[i] : i \in 1..Len(SubmissionIdPool)}

SubmissionRequired == {"name", "email", "subject", "message"}
Priorities == {"low", "medium", "high"}
NoSubmission == [read |-> FALSE, replied |-> FALSE, priority |-> ""]

\* Bodies of a create: the fields carried and the priority, when carried.
SubmissionBodies ==
  { [given |-> SubmissionRequired, priority |-> ""],
    [given |-> SubmissionRequired \ {"email"}, priority |-> ""],
    [given |-> SubmissionRequired \cup {"priority"}, priority |-> "high"],
    [given |-> SubmissionRequired \cup {"priority"}, priority |-> "urgent"] }

\* Bodies of read and replied: the flag, when carried.
FlagBodies ==
  { [given |-> FALSE, flag |-> TRUE], [given |-> TRUE, flag |-> TRUE],
    [given |-> TRUE, flag |-> FALSE] }
\* const { replied = true } = req.body
FlagOf(body) == IF body.given THEN body.flag ELSE TRUE

SubmissionSnapshot(id) ==
  IF id \in DOMAIN submissions
  THEN [found |-> TRUE, doc |-> submissions[id]]
  ELSE [found |-> FALSE, doc |-> NoSubmission]

SReq(op, id, flag) ==
  [op |-> op, id |-> id, flag |-> flag, before |-> SubmissionSnapshot(id)]

SAnswer(op, id, flag, status, error) ==
  /\ sReq' = SReq(op, id, flag)
  /\ sResp' = [status |-> status, error |-> error]

\* new ContactSubmission({...}) with the defaults of the route and the schema.
NewSubmission(body) ==
  [read |-> FALSE, replied |-> FALSE,
   priority |-> IF "priority" \in body.given THEN body.priority ELSE "medium"]

\* The schema's validation on save: enum of priority.
SubmissionValid(doc) == doc.priority \in Priorities

\* { read }
ReadUpdate(doc, read) == [doc EXCEPT !.read = read]

\* An update that writes replied alone.
RepliedUpdateOnly(doc, replied) == [doc EXCEPT !.replied = replied]

\* { replied, read: true }
RepliedUpdate(doc, replied) == [doc EXCEPT !.replied = replied, !.read = TRUE]

ContactInit ==
  /\ submissions = [id \in {} |-> NoSubmission]
  /\ nextSubmission = 1
  /\ sReq = [op |-> "none", id |-> "", flag |-> FALSE,
             before |-> [found |-> FALSE, doc |-> NoSubmission]]
  /\ sResp = [status |-> 0, error |-> ""]

\* POST /api/contact-submissions
CreateSubmission(body) ==
  /\ nextSubmission <= Len(SubmissionIdPool)
  /\ LET id == SubmissionIdPool[nextSubmission]
         doc == NewSubmission(body)
     IN  IF ~(SubmissionRequired \subseteq body.given)
           THEN /\ SAnswer("create", "", FALSE, 400, "Missing required fields")
                /\ UNCHANGED <<submissions, nextSubmission>>
         ELSE IF ~SubmissionValid(doc)
           THEN /\ SAnswer("create", "", FALSE, 500, "Failed to create contact submission")
                /\ UNCHANGED <<submissions, nextSubmission>>
         ELSE /\ submissions' =
                   [i \in DOMAIN submissions \cup {id} |->
                      IF i = id THEN doc ELSE submissions[i]]
              /\ nextSubmission' = nextSubmission + 1
              /\ SAnswer("create", id, FALSE, 201, "")
  /\ UNCHANGED <<now, nonCrud, testimonialVars, subscriberVars, listVars, lateVars>>

\* The answer of a per-id route to an id that names no document.
SubmissionMiss(op, id, flag) ==
  /\ id \notin DOMAIN submissions
  /\ IF id = BadId THEN SAnswer(op, id, flag, 400, "Invalid submission ID")
     ELSE SAnswer(op, id, flag, 404, "Contact submission not found")
  /\ UNCHANGED submissions

\* GET /api/contact-submissions/:id
GetSubmission(id) ==
  /\ \/ SubmissionMiss("get", id, FALSE)
     \/ /\ id \in DOMAIN submissions
        /\ SAnswer("get", id, FALSE, 200, "")
        /\ UNCHANGED submissions
  /\ UNCHANGED nextSubmission
  /\ UNCHANGED <<now, nonCrud, testimonialVars, subscriberVars, listVars, lateVars>>

\* PUT /api/contact-submissions/:id/read
MarkRead(id, body) ==
  /\ \/ SubmissionMiss("read", id, FlagOf(body))
     \/ /\ id \in DOMAIN submissions
        /\ submissions' = [submissions EXCEPT ![id] = ReadUpdate(@, FlagOf(body))]
        /\ SAnswer("read", id, FlagOf(body), 200, "")
  /\ UNCHANGED nextSubmission
  /\ UNCHANGED <<now, nonCrud, testimonialVars, subscriberVars, listVars, lateVars>>

\* PUT /api/contact-submissions/:id/replied
MarkReplied(id, body) ==
  /\ \/ SubmissionMiss("replied", id, FlagOf(body))
     \/ /\ id \in DOMAIN submissions
        /\ submissions' = [submissions EXCEPT ![id] = RepliedUpdate(@, FlagOf(body))]
        /\ SAnswer("replied", id, FlagOf(body), 200, "")
  /\ UNCHANGED nextSubmission
  /\ UNCHANGED <<now, nonCrud, testimonialVars, subscriberVars, listVars, lateVars>>

\* PUT /api/contact-submissions/:id/priority
SetPriority(id, priority) ==
  /\ IF priority \notin Priorities
       THEN /\ SAnswer("priority", id, FALSE, 400, "Priority must be low, medium, or high")
            /\ UNCHANGED submissions
     ELSE \/ SubmissionMiss("priority", id, FALSE)
          \/ /\ id \in DOMAIN submissions
             /\ submissions' = [submissions EXCEPT ![id].priority = priority]
             /\ SAnswer("priority", id, FALSE, 200, "")
  /\ UNCHANGED nextSubmission
  /\ UNCHANGED <<now, nonCrud, testimonialVars, subscriberVars, listVars, lateVars>>

\* DELETE /api/contact-submissions/:id
DeleteSubmission(id) ==
  /\ \/ SubmissionMiss("delete", id, FALSE)
     \/ /\ id \in DOMAIN submissions
        /\ submissions' = [i \in DOMAIN submissions \ {id} |-> submissions[i]]
        /\ SAnswer("delete", id, FALSE, 200, "")
  /\ UNCHANGED nextSubmission
  /\ UNCHANGED <<now, nonCrud, testimonialVars, subscriberVars, listVars, lateVars>>

DoCreateSubmission == \E body \in SubmissionBodies : CreateSubmission(body)
DoGetSubmission == \E id \in SubmissionIds \cup {BadId} : GetSubmission(id)
DoMarkRead ==
  \E id \in SubmissionIds \cup {BadId}, body \in FlagBodies : MarkRead(id, body)
DoMarkReplied ==
  \E id \in SubmissionIds \cup {BadId}, body \in FlagBodies : MarkReplied(id, body)
DoSetPriority ==
  \E id \in SubmissionIds \cup {BadId}, priority \in {"low", "high", "urgent"} :
    SetPriority(id, priority)
DoDeleteSubmission == \E id \in SubmissionIds \cup {BadId} : DeleteSubmission(id)

ContactNext ==
  \/ DoCreateSubmission
  \/ DoGetSubmission
  \/ DoMarkRead
  \/ DoMarkReplied
  \/ DoSetPriority
  \/ DoDeleteSubmission

\* ------------------------------------------ newsletter subscribers, send

SubscriberIdPool == <<"r1", "r2">>
SubscriberIds == {SubscriberIdPool[i] : i \in 1..Len(SubscriberIdPool)}

\* Email addresses, character by character; the empty one is a body without
\* email.
SubscriberEmails ==
  { << >>, <<"a", "@", "x">>, <<"A", "@", "x">>, <<"b", "@", "x">> }

\* lowercase: true of newsletterSubscriberSchema.email (toLowerCase on the
\* letters the addresses use), applied when a document is built and when a
\* query is cast.
LowerCase(email) ==
  LET LowerChar(c) == CASE c = "A" -> "a"
                        [] c = "B" -> "b"
                        [] c = "X" -> "x"
                        [] OTHER -> c
  IN  [i \in 1..Len(email) |-> LowerChar(email[i])]

NoSubscriber == [email |-> << >>, unsubscribed |-> FALSE, unsubscribedAt |-> NoTime]

\* NewsletterSubscriber.findOne({ email })
FindOneByEmail(email) ==
  LET hits == {id \in DOMAIN subscribers : subscribers[id].email = LowerCase(email)}
  IN  IF hits = {}
      THEN [found |-> FALSE, id |-> "", doc |-> NoSubscriber]
      ELSE LET id == CHOOSE i \in hits : TRUE
           IN  [found |-> TRUE, id |-> id, doc |-> subscribers[id]]

\* findById of the subscriber routes.
FindSubscriber(id) ==
  IF id \in DOMAIN subscribers
  THEN [found |-> TRUE, id |-> id, doc |-> subscribers[id]]
  ELSE [found |-> FALSE, id |-> "", doc |-> NoSubscriber]

SubReq(op, before, recipients) ==
  [op |-> op, before |-> before, recipients |-> recipients]

SubAnswer(op, before, recipients, status, error) ==
  /\ subReq' = SubReq(op, before, recipients)
  /\ subResp' = [status |-> status, error |-> error]

\* A subscribe that resubscribes whomever it finds.
SubscribeBranchResubscribes(existing) ==
  IF ~existing.found THEN "create" ELSE "resubscribe"

\* if (existingSubscriber) { if (existingSubscriber.unsubscribed) ... else ... }
SubscribeBranch(existing) ==
  IF ~existing.found THEN "create"
  ELSE IF existing.doc.unsubscribed THEN "resubscribe"
  ELSE "already"

\* A resubscribe that keeps the unsubscribe stamp.
ResubscribedKeepsStamp(doc) == [doc EXCEPT !.unsubscribed = FALSE]

\* existingSubscriber.unsubscribed = false; .unsubscribedAt = null
Resubscribed(doc) == [doc EXCEPT !.unsubscribed = FALSE, !.unsubscribedAt = NoTime]

\* new NewsletterSubscriber({ email, name, source })
NewSubscriber(email) ==
  [email |-> LowerCase(email), unsubscribed |-> FALSE, unsubscribedAt |-> NoTime]

\* unique: true of newsletterSubscriberSchema.email: the insert is refused
\* when a document holds the address.
UniqueEmail(doc) == \A id \in DOMAIN subscribers : subscribers[id].email # doc.email

\* { unsubscribed: true, unsubscribedAt: new Date() }
Unsubscribed(doc, t) == [doc EXCEPT !.unsubscribed = TRUE, !.unsubscribedAt = t]

SubscriberInit ==
  /\ subscribers = [id \in {} |-> NoSubscriber]
  /\ nextSubscriber = 1
  /\ campaigns = << >>
  /\ subReq = SubReq("none", [found |-> FALSE, id |-> "", doc |-> NoSubscriber], 0)
  /\ subResp = [status |-> 0, error |-> ""]

\* POST /api/newsletter/subscribers
Subscribe(email) ==
  /\ LET existing == FindOneByEmail(email)
         branch == SubscribeBranch(existing)
         doc == NewSubscriber(email)
     IN  IF email = << >>
           THEN /\ SubAnswer("subscribe", FindSubscriber(BadId), 0, 400, "Email is required")
                /\ UNCHANGED <<subscribers, nextSubscriber>>
         ELSE IF branch = "resubscribe"
           THEN /\ subscribers' = [subscribers EXCEPT ![existing.id] = Resubscribed(@)]
                /\ SubAnswer("subscribe", existing, 0, 200, "")
                /\ UNCHANGED nextSubscriber
         ELSE IF branch = "already"
           THEN /\ SubAnswer("subscribe", existing, 0, 400, "Email is already subscribed")
                /\ UNCHANGED <<subscribers, nextSubscriber>>
         ELSE IF ~UniqueEmail(doc)
           THEN /\ SubAnswer("subscribe", existing, 0, 500, "Failed to add newsletter subscriber")
                /\ UNCHANGED <<subscribers, nextSubscriber>>
         ELSE /\ nextSubscriber <= Len(SubscriberIdPool)
              /\ subscribers' =
                   [i \in DOMAIN subscribers \cup {SubscriberIdPool[nextSubscriber]} |->
                      IF i \in DOMAIN subscribers THEN subscribers[i] ELSE doc]
              /\ nextSubscriber' = nextSubscriber + 1
              /\ SubAnswer("subscribe", existing, 0, 201, "")
  /\ UNCHANGED campaigns
  /\ UNCHANGED <<now, nonCrud, testimonialVars, contactVars, listVars, lateVars>>

\* PUT /api/newsletter/subscribers/:id/unsubscribe
Unsubscribe(id) ==
  /\ IF id = BadId
       THEN /\ SubAnswer("unsubscribe", FindSubscriber(id), 0, 400, "Invalid subscriber ID")
            /\ UNCHANGED subscribers
     ELSE IF id \notin DOMAIN subscribers
       THEN /\ SubAnswer("unsubscribe", FindSubscriber(id), 0, 404, "Subscriber not found")
            /\ UNCHANGED subscribers
     ELSE /\ subscribers' = [subscribers EXCEPT ![id] = Unsubscribed(@, now)]
          /\ SubAnswer("unsubscribe", FindSubscriber(id), 0, 200, "")
  /\ UNCHANGED <<nextSubscriber, campaigns>>
  /\ UNCHANGED <<now, nonCrud, testimonialVars, contactVars, listVars, lateVars>>

\* DELETE /api/newsletter/subscribers/:id
DeleteSubscriber(id) ==
  /\ IF id = BadId
       THEN /\ SubAnswer("delete", FindSubscriber(id), 0, 400, "Invalid subscriber ID")
            /\ UNCHANGED subscribers
     ELSE IF id \notin DOMAIN subscribers
       THEN /\ SubAnswer("delete", FindSubscriber(id), 0, 404, "Subscriber not found")
            /\ UNCHANGED subscribers
     ELSE /\ subscribers' = [i \in DOMAIN subscribers \ {id} |-> subscribers[i]]
          /\ SubAnswer("delete", FindSubscriber(id), 0, 200, "")
  /\ UNCHANGED <<nextSubscriber, campaigns>>
  /\ UNCHANGED <<now, nonCrud, testimonialVars, contactVars, listVars, lateVars>>

\* Bodies of a send: whether subject and content are there, and sendTo.
SendBodies ==
  { [complete |-> c, sendTo |-> t, subscriberIds |-> ids] :
      c \in BOOLEAN, t \in {"all", "unsubscribed", Absent}, ids \in {{}} }
  \cup {[complete |-> TRUE, sendTo |-> "selected",
          subscriberIds |-> {SubscriberIdPool[1]}]}

\* The recipients the route selects.
Recipients(body) ==
  IF body.sendTo = "all"
    THEN {id \in DOMAIN subscribers : ~subscribers[id].unsubscribed}
  ELSE IF body.sendTo = "selected" /\ body.subscriberIds # {}
    THEN {id \in DOMAIN subscribers :
            id \in body.subscriberIds /\ ~subscribers[id].unsubscribed}
  ELSE IF body.sendTo = "unsubscribed"
    THEN {id \in DOMAIN subscribers : subscribers[id].unsubscribed}
  ELSE {}

\* The identifiers in scope where the route builds the campaign: the
\* destructured fields of the body and recipients.
SendScope == {"subject", "content", "sendTo", "subscriberIds", "recipients"}
\* The identifiers the campaign's object literal reads.
CampaignReads == {"subject", "content", "sentTo", "recipients"}

\* new NewsletterCampaign({...}), then campaign.status = 'sent' and
\* deliveryStats.delivered = recipients.length
SentCampaign(body, recipients) ==
  [sentTo |-> body.sendTo, recipientCount |-> Cardinality(recipients),
   status |-> "sent", delivered |-> Cardinality(recipients)]

\* POST /api/newsletter/send
Send(body) ==
  /\ LET recipients == Recipients(body)
         none == FindSubscriber(BadId)
     IN  IF ~body.complete
           THEN /\ SubAnswer("send", none, 0, 400, "Subject and content are required")
                /\ UNCHANGED campaigns
         ELSE IF recipients = {}
           THEN /\ SubAnswer("send", none, 0, 400, "No recipients found")
                /\ UNCHANGED campaigns
         ELSE IF ~(CampaignReads \subseteq SendScope)
           THEN \* ReferenceError, caught by the route's outer catch
                /\ SubAnswer("send", none, Cardinality(recipients), 500,
                             "Failed to send newsletter")
                /\ UNCHANGED campaigns
         ELSE /\ campaigns' = Append(campaigns, SentCampaign(body, recipients))
              /\ SubAnswer("send", none, Cardinality(recipients), 200, "")
  /\ UNCHANGED <<subscribers, nextSubscriber>>
  /\ UNCHANGED <<now, nonCrud, testimonialVars, contactVars, listVars, lateVars>>

\* The subscriber routes' clock, in hours.
MaxSubscriberTime == 1

DoSubscribe == \E email \in SubscriberEmails : Subscribe(email)
DoUnsubscribe == \E id \in SubscriberIds \cup {BadId} : Unsubscribe(id)
DoDeleteSubscriber == \E id \in SubscriberIds \cup {BadId} : DeleteSubscriber(id)
DoSend == \E body \in SendBodies : Send(body)

SubscriberNext ==
  \/ DoSubscribe
  \/ DoUnsubscribe
  \/ DoDeleteSubscriber
  \/ DoSend
  \/ Tick(1, MaxSubscriberTime)

\* ------------------------------------------------------ listing of blogs

\* The largest collection, page and limit tried.
MaxListed == 25
MaxPage == 3
MaxLimit == 10

\* A collection of n blogs in sort order; in a mixed one every third blog is
\* a draft.
Collection(n, mixed) ==
  [i \in 1..n |->
     [key |-> i,
      status |-> IF mixed /\ i % 3 = 0 THEN "draft" ELSE "published"]]

ListReq(page, limit, status) == [page |-> page, limit |-> limit, status |-> status]
ListResp(status, keys, totalPages, currentPage, totalBlogs) ==
  [status |-> status, blogs |-> keys, totalPages |-> totalPages,
   currentPage |-> currentPage, totalBlogs |-> totalBlogs]

\* if (status) query.status = status; Blog.find(query).sort(options.sort)
Find(query) ==
  SelectSeq(listed, LAMBDA b : query.status = Absent \/ b.status = query.status)

\* A skip that skips nothing.
SkipNone(docs, n) == docs

\* .skip(n)
Skip(docs, n) ==
  IF n >= Len(docs) THEN << >> ELSE SubSeq(docs, n + 1, Len(docs))

\* .limit(n), n >= 1
Limit(docs, n) == IF n >= Len(docs) THEN docs ELSE SubSeq(docs, 1, n)

\* Math.ceil(total / limit), limit >= 1
Ceil(total, limit) == (total + limit - 1) \div limit

\* No listing has run; the collection is empty.
ListIdle ==
  /\ listed = << >>
  /\ listReq = ListReq(0, 0, Absent)
  /\ listResp = ListResp(0, << >>, 0, 0, 0)

\* No listing has run; the collection holds up to MaxListed blogs.
ListInit ==
  /\ listed \in {Collection(n, mixed) : n \in 0..MaxListed, mixed \in BOOLEAN}
  /\ listReq = ListReq(0, 0, Absent)
  /\ listResp = ListResp(0, << >>, 0, 0, 0)

\* GET /api/blogs
ListBlogs(page, limit, status) ==
  /\ LET query == ListReq(page, limit, status)
         found == Limit(Skip(Find(query), (page - 1) * limit), limit * 1)
         total == Len(Find(query))
     IN  /\ listReq' = query
         /\ listResp' = ListResp(200, [i \in 1..Len(found) |-> found[i].key],
                              Ceil(total, limit), page, total)
  /\ UNCHANGED listed
  /\ UNCHANGED <<now, nonCrud, testimonialVars, contactVars, subscriberVars, lateVars>>

DoListBlogs ==
  \E page \in 1..MaxPage, limit \in 1..MaxLimit, status \in {Absent, "published"} :
    ListBlogs(page, limit, status)

ListNext == DoListBlogs

\* ------------------------------------------- public testimonial listings

\* Query strings tried on GET /api/testimonials. `active` is a parameter the
\* caller may send; the handler does not read it.
PublicQuery(active, featured, rating, sortBy, sortOrder, limit) ==
  [active |-> active, featured |-> featured, rating |-> rating,
   sortBy |-> sortBy, sortOrder |-> sortOrder, limit |-> limit]
PublicQueries ==
  { PublicQuery(Absent, Absent, 0, "createdAt", "desc", 10),
    PublicQuery("false", Absent, 0, "createdAt", "desc", 10),
    PublicQuery("false", "true", 0, "rating", "asc", 1),
    PublicQuery("false", "false", 5, "createdAt", "asc", 10),
    PublicQuery(Absent, "false", 0, "rating", "desc", 1),
    PublicQuery(Absent, "true", 5, "rating", "asc", 10) }
FeaturedLimits == {1, 5}

\* A listing answers: its query and the documents it returned are recorded.
TList(op, query, ids) ==
  [op |-> op, query |-> query,
   docs |-> [i \in 1..Len(ids) |-> [id |-> ids[i], doc |-> testimonials[ids[i]]]]]

\* A filter that takes `active` from the caller when the caller sends it.
PublicMatchCallerActive(doc, query) ==
  /\ doc.active = (IF query.active = Absent THEN TRUE ELSE query.active = "true")
  /\ (query.featured # Absent) => (doc.featured = (query.featured = "true"))
  /\ (query.rating # 0) => (doc.rating >= query.rating)

\* query = { active: true }, then the featured and rating filters
PublicMatch(doc, query) ==
  /\ doc.active = TRUE
  /\ (query.featured # Absent) => (doc.featured = (query.featured = "true"))
  /\ (query.rating # 0) => (doc.rating >= query.rating)

\* { featured: true, active: true }
FeaturedMatch(doc) == doc.featured = TRUE /\ doc.active = TRUE

\* createdAt orders the documents as they were created.
CreatedAt(id) == CHOOSE i \in 1..Len(TestimonialIdPool) : TestimonialIdPool[i] = id

\* .sort({ [sortBy]: sortOrder === 'desc' ? -1 : 1 }); equal keys keep the
\* order of creation.
SortsBefore(a, b, sortBy, sortOrder) ==
  LET ka == IF sortBy = "rating" THEN testimonials[a].rating ELSE CreatedAt(a)
      kb == IF sortBy = "rating" THEN testimonials[b].rating ELSE CreatedAt(b)
  IN  IF ka = kb THEN CreatedAt(a) < CreatedAt(b)
      ELSE IF sortOrder = "desc" THEN ka > kb ELSE ka < kb
Sorted(ids, sortBy, sortOrder) ==
  CHOOSE seq \in [1..Cardinality(ids) -> ids] :
    /\ \A id \in ids : \E i \in DOMAIN seq : seq[i] = id
    /\ \A i, j \in DOMAIN seq : i < j => SortsBefore(seq[i], seq[j], sortBy, sortOrder)

PublicIdle ==
  tList = [op |-> "none", query |-> PublicQuery(Absent, Absent, 0, "createdAt", "desc", 10),
           docs |-> << >>]

\* GET /api/testimonials
ListPublic(query) ==
  /\ LET matched == {id \in DOMAIN testimonials : PublicMatch(testimonials[id], query)}
     IN  tList' = TList("public", query,
                        Limit(Sorted(matched, query.sortBy, query.sortOrder), query.limit))
  /\ UNCHANGED <<now, nonCrud, testimonialVars, contactVars, subscriberVars, listVars,
                 likeVars, toggleVars>>

\* GET /api/testimonials/featured/list
ListFeatured(limit) ==
  /\ LET matched == {id \in DOMAIN testimonials : FeaturedMatch(testimonials[id])}
     IN  tList' = TList("featured", PublicQuery(Absent, Absent, 0, "createdAt", "desc", limit),
                        Limit(Sorted(matched, "createdAt", "desc"), limit))
  /\ UNCHANGED <<now, nonCrud, testimonialVars, contactVars, subscriberVars, listVars,
                 likeVars, toggleVars>>

DoListPublic == \E query \in PublicQueries : ListPublic(query)
DoListFeatured == \E limit \in FeaturedLimits : ListFeatured(limit)

\* The testimonial writes that change what a listing can match, with the
\* bodies that set a rating, active or featured, and the two listings.
PublicCreates ==
  { TestimonialBody({"name", "company", "rating"}, 1, TRUE, TRUE),
    TestimonialBody({"name", "company", "rating", "featured"}, 5, TRUE, TRUE) }
PublicUpdates ==
  { TestimonialBody({"active"}, 0, FALSE, FALSE),
    TestimonialBody({"rating"}, 5, FALSE, FALSE) }
PublicNext ==
  \/ \E body \in PublicCreates : CreateTestimonial(body)
  \/ \E id \in TestimonialIds, body \in PublicUpdates : UpdateTestimonial(id, body)
  \/ \E id \in TestimonialIds : ToggleActive(id)
  \/ \E id \in TestimonialIds : ToggleFeatured(id)
  \/ DoListPublic
  \/ DoListFeatured

\* ------------------------------------------------------------ blog likes

MaxLikes == 3

\* Where a like request stands: idle, sent (the handler has not yet run its
\* query) or updated (findByIdAndUpdate has returned, the response is not yet
\* written), with the id it names and what the query returned.
LikeAt(at, id, status, likes) == [at |-> at, id |-> id, status |-> status, likes |-> likes]
LikeRest == LikeAt("idle", "", 0, 0)

LikeIdle ==
  /\ likePc = [c \in Clients |-> LikeRest]
  /\ likeSeen = << >>
  /\ likeOrig = 0

\* The like requests that are not yet answered.
LikesInFlight == {c \in Clients : likePc[c].at # "idle"}

\* An update that sets likes to 1.
LikedSet(likes) == 1

\* { $inc: { likes: 1 } }
Liked(likes) == likes + 1

\* POST /api/blogs/:id/like arrives.
LikeArrive(c, id) ==
  /\ likePc[c].at = "idle"
  /\ Len(likeSeen) + Cardinality(LikesInFlight) < MaxLikes
  /\ likePc' = [likePc EXCEPT ![c] = LikeAt("sent", id, 0, 0)]
  /\ UNCHANGED <<likeSeen, likeOrig>>
  /\ UNCHANGED <<now, nonCrud, testimonialVars, contactVars, subscriberVars, listVars,
                 publicVars, toggleVars>>

\* Blog.findByIdAndUpdate(id, { $inc: { likes: 1 } }, { new: true }): one
\* atomic operation of the store, returning the document after the update.
LikeUpdate(c) ==
  /\ likePc[c].at = "sent"
  /\ LET id == likePc[c].id
     IN  IF id = BadId
           THEN /\ likePc' = [likePc EXCEPT ![c] = LikeAt("updated", id, 400, 0)]
                /\ UNCHANGED blogs
         ELSE IF id \notin DOMAIN blogs
           THEN /\ likePc' = [likePc EXCEPT ![c] = LikeAt("updated", id, 404, 0)]
                /\ UNCHANGED blogs
         ELSE /\ blogs' = [blogs EXCEPT ![id].likes = Liked(@)]
              /\ likePc' = [likePc EXCEPT ![c] = LikeAt("updated", id, 200, blogs'[id].likes)]
  /\ UNCHANGED <<likeSeen, likeOrig>>
  /\ UNCHANGED <<now, nextBlog, files, blogReq, blogResp, authVars, viewVars, nlVars,
                 nameVars, testimonialVars, contactVars, subscriberVars, listVars,
                 publicVars, toggleVars>>

\* The like handler answers: res.json({ likes: blog.likes }), 404 or 400.
LikeRespond(c) ==
  /\ likePc[c].at = "updated"
  /\ blogReq' = BlogReq("like", likePc[c].id, NoUpload)
  /\ blogResp' = BlogResp(likePc[c].status,
                          IF likePc[c].status = 400 THEN "Invalid blog ID"
                          ELSE IF likePc[c].status = 404 THEN "Blog not found"
                          ELSE "", {}, {})
  /\ likeSeen' = IF likePc[c].status = 200 THEN Append(likeSeen, likePc[c].likes)
                 ELSE likeSeen
  /\ likePc' = [likePc EXCEPT ![c] = LikeRest]
  /\ UNCHANGED likeOrig
  /\ UNCHANGED <<now, blogs, nextBlog, files, authVars, viewVars, nlVars, nameVars,
                 testimonialVars, contactVars, subscriberVars, listVars,
                 publicVars, toggleVars>>

DoLikeArrive == \E c \in Clients, id \in BlogIds \cup {BadId} : LikeArrive(c, id)
DoLikeUpdate == \E c \in Clients : LikeUpdate(c)
DoLikeRespond == \E c \in Clients : LikeRespond(c)

LikeNext ==
  \/ DoLikeArrive
  \/ DoLikeUpdate
  \/ DoLikeRespond

\* ------------------------------------------- concurrent toggle-active

MaxToggles == 2

NoToggle == [id |-> "", doc |-> NoTestimonial]

ToggleIdle ==
  /\ tgPc = [c \in Clients |-> "idle"]
  /\ tgDoc = [c \in Clients |-> NoToggle]
  /\ tgOrig = [id \in {} |-> NoTestimonial]
  /\ tgDone = [id \in TestimonialIds |-> 0]

\* The toggle-active requests that hold a document of `id` and have not saved.
TogglesLoaded(id) == {c \in Clients : tgPc[c] = "loaded" /\ tgDoc[c].id = id}

\* PUT /api/testimonials/:id/toggle-active, up to the await of findById
ToggleFind(c, id) ==
  /\ tgPc[c] = "idle"
  /\ IF id = BadId
       THEN /\ TAnswer("toggle-active", id, 400, "Invalid testimonial ID")
            /\ UNCHANGED <<tgPc, tgDoc>>
     ELSE IF id \notin DOMAIN testimonials
       THEN /\ TAnswer("toggle-active", id, 404, "Testimonial not found")
            /\ UNCHANGED <<tgPc, tgDoc>>
     ELSE /\ tgDone[id] + Cardinality(TogglesLoaded(id)) < MaxToggles
          /\ tgDoc' = [tgDoc EXCEPT ![c] = [id |-> id, doc |-> testimonials[id]]]
          /\ tgPc' = [tgPc EXCEPT ![c] = "loaded"]
          /\ UNCHANGED <<tReq, tResp, tPrev>>
  /\ UNCHANGED <<testimonials, nextTestimonial, tgOrig, tgDone>>
  /\ UNCHANGED <<now, nonCrud, contactVars, subscriberVars, listVars, publicVars, likeVars>>

\* PUT /api/testimonials/:id/toggle-active, from the assignment of active to
\* the response: save() writes the value computed from the document read.
ToggleSave(c) ==
  /\ tgPc[c] = "loaded"
  /\ LET id == tgDoc[c].id
         doc == ToggledActive(tgDoc[c].doc)
     IN  IF id \in DOMAIN testimonials
           THEN /\ testimonials' = [testimonials EXCEPT ![id].active = doc.active]
                /\ tgDone' = [tgDone EXCEPT ![id] = @ + 1]
                /\ TAnswer("toggle-active", id, 200, "")
         ELSE /\ TAnswer("toggle-active", id, 500, "Failed to toggle testimonial status")
              /\ UNCHANGED <<testimonials, tgDone>>
  /\ tgPc' = [tgPc EXCEPT ![c] = "idle"]
  /\ tgDoc' = [tgDoc EXCEPT ![c] = NoToggle]
  /\ UNCHANGED <<nextTestimonial, tgOrig>>
  /\ UNCHANGED <<now, nonCrud, contactVars, subscriberVars, listVars, publicVars, likeVars>>

DoToggleFind == \E c \in Clients, id \in TestimonialIds \cup {BadId} : ToggleFind(c, id)
DoToggleSave == \E c \in Clients : ToggleSave(c)

ToggleRaceNext ==
  \/ DoToggleFind
  \/ DoToggleSave

LateInit == PublicIdle /\ LikeIdle /\ ToggleIdle

\* ------------------------------------------------------- specifications

DoLogin == \E username \in Usernames, password \in Passwords : Login(username, password)
DoRegister ==
  \E username \in Usernames, email \in Emails, password \in RegisterPasswords,
     role \in Roles :
    Register(username, email, password, role)
DoVerify == \E token \in {held, NoToken, Forged} : Verify(token)
DoStoreRemove == \E id \in DOMAIN users : StoreRemove(id)
DoStoreSetActive == \E id \in DOMAIN users, flag \in BOOLEAN : StoreSetActive(id, flag)

AuthNext ==
  \/ DoLogin
  \/ DoRegister
  \/ DoVerify
  \/ DoStoreRemove
  \/ DoStoreSetActive
  \/ Tick(1, MaxLockTime)

TokenNext ==
  \/ DoLogin
  \/ DoRegister
  \/ DoVerify
  \/ DoStoreRemove
  \/ DoStoreSetActive
  \/ Tick(TokenTick, MaxTime)

CrudInit == TestimonialInit /\ ContactInit /\ SubscriberInit /\ ListIdle /\ LateInit

Init == AuthInit /\ BlogInit /\ ViewInit /\ NlInit /\ NameInit /\ CrudInit

AuthSpec == Init /\ [][AuthNext]_vars

TokenSpec == Init /\ [][TokenNext]_vars

BlogSpec == Init /\ [][BlogNext]_vars

\* The blog routes' reads run against a collection that holds one blog.
OneBlogInit ==
  /\ AuthInit /\ ViewInit /\ NlInit /\ NameInit /\ CrudInit
  /\ blogs = [id \in {BlogIdPool[1]} |-> NewBlog(Body("a", "x", Absent), NoFile)]
  /\ nextBlog = 2
  /\ files = {}
  /\ blogReq = BlogReq("none", "", NoUpload)
  /\ blogResp = BlogResp(0, "", {}, {})

ViewSpec == OneBlogInit /\ [][ViewNext]_vars

DownloadSpec == Init /\ [][DownloadNext]_vars

NameSpec == Init /\ [][NameNext]_vars

TestimonialSpec == Init /\ [][TestimonialNext]_vars

ContactSpec == Init /\ [][ContactNext]_vars

SubscriberSpec == Init /\ [][SubscriberNext]_vars

\* The blog create and update routes without file part, while time passes.
MaxPublishTime == 2
PublishNext ==
  \/ \E payload \in Payloads : CreateBlog(payload, NoUpload, 0)
  \/ \E id \in BlogIds, payload \in Payloads : UpdateBlog(id, payload, NoUpload, 0)
  \/ Tick(1, MaxPublishTime)

PublishSpec == Init /\ [][PublishNext]_vars

PublicSpec == Init /\ [][PublicNext]_vars

\* The like route runs against a collection that holds one blog, liked or not.
LikeInit ==
  /\ AuthInit /\ ViewInit /\ NlInit /\ NameInit
  /\ TestimonialInit /\ ContactInit /\ SubscriberInit /\ ListIdle
  /\ PublicIdle /\ ToggleIdle
  /\ likePc = [c \in Clients |-> LikeRest]
  /\ likeSeen = << >>
  /\ likeOrig \in 0..1
  /\ blogs = [id \in {BlogIdPool[1]} |->
               [NewBlog(Body("a", "x", Absent), NoFile) EXCEPT !.likes = likeOrig]]
  /\ nextBlog = 2
  /\ files = {}
  /\ blogReq = BlogReq("none", "", NoUpload)
  /\ blogResp = BlogResp(0, "", {}, {})

LikeSpec == LikeInit /\ [][LikeNext]_vars

\* The toggle-active route runs against a collection that holds one
\* testimonial, active or not.
ToggleRaceInit ==
  /\ AuthInit /\ BlogInit /\ ViewInit /\ NlInit /\ NameInit
  /\ ContactInit /\ SubscriberInit /\ ListIdle /\ PublicIdle /\ LikeIdle
  /\ \E active \in BOOLEAN :
       testimonials = [id \in {TestimonialIdPool[1]} |->
                        [name |-> "n", company |-> "c", rating |-> 5,
                         active |-> active, featured |-> FALSE]]
  /\ nextTestimonial = 2
  /\ tReq = [op |-> "none", id |-> "", before |-> [found |-> FALSE, doc |-> NoTestimonial]]
  /\ tResp = [status |-> 0, error |-> ""]
  /\ tPrev = [op |-> "none", id |-> "", status |-> 0,
              before |-> [found |-> FALSE, doc |-> NoTestimonial]]
  /\ tgPc = [c \in Clients |-> "idle"]
  /\ tgDoc = [c \in Clients |-> NoToggle]
  /\ tgOrig = testimonials
  /\ tgDone = [id \in TestimonialIds |-> 0]

ToggleRaceSpec == ToggleRaceInit /\ [][ToggleRaceNext]_vars

\* GET /api/blogs runs against a collection that holds blogs, with no writes.
ListingInit ==
  /\ AuthInit /\ BlogInit /\ ViewInit /\ NlInit /\ NameInit
  /\ TestimonialInit /\ ContactInit /\ SubscriberInit
  /\ ListInit /\ LateInit

ListSpec == ListingInit /\ [][ListNext]_vars

\* ------------------------------------------------------------ auth: claims

\* The account's lock window, as the claim states it: lock stamp + lock
\* duration > now.
InLockWindow(id) ==
  /\ id \in DOMAIN users
  /\ users[id].lockedAt # NoTime
  /\ users[id].lockedAt + LockDuration > now

\* C1: for a stored account, the fifth consecutive failed login locks it, and
\* every login made inside the lock window is answered 423 whatever the secret
\* is, issues no token and leaves the account as it was.
C1_LockedLoginRejected ==
  [][\A username \in Usernames, password \in Passwords :
       (Login(username, password)
          /\ ~(username = SuperName /\ password = SuperPass))
       => /\ \A id \in FindByName(username) :
               InLockWindow(id) =>
                 /\ authResp'.status = 423
                 /\ authResp'.token = NoToken
                 /\ held' = held
                 /\ users' = users
          /\ \A id \in FindByName(username) :
               (streak[id] = MaxLoginAttempts - 1 /\ streak'[id] = MaxLoginAttempts)
               => /\ authResp'.status = 401
                  /\ users'[id].lockedAt = now
                  /\ users'[id].lockedAt + LockDuration > now]_vars

\* A sixth attempt with the right secret, inside the window, answered 423.
C1_Witness ==
  /\ authReq.op = "login"
  /\ authReq.username # SuperName
  /\ authResp.status = 423
  /\ \E id \in DOMAIN users :
       /\ users[id].username = authReq.username
       /\ users[id].password = authReq.password
       /\ streak[id] = MaxLoginAttempts
       /\ InLockWindow(id)

\* C2: a verify of a validly signed, unexpired token that was not issued to
\* the hard-coded superuser succeeds only if the token's account is in the
\* store and active, and is answered 401 "User not found or inactive" otherwise.
C2_VerifyNeedsAccount ==
  [][\A token \in {held, Forged, NoToken} :
       (Verify(token) /\ token.kind = "signed" /\ now < token.exp
          /\ token.id # SuperId)
       => IF token.id \in DOMAIN users /\ users[token.id].active
          THEN authResp'.status = 200
          ELSE /\ authResp'.status = 401
               /\ authResp'.error = "User not found or inactive"]_vars

\* C3 as stated: a signed token verifies at every time before iat + 24h and is
\* answered "Invalid token" at every time after it.
C3_Original ==
  [][\A token \in {held, Forged, NoToken} :
       (Verify(token) /\ token.kind = "signed")
       => /\ now < token.iat + TokenTTL => authResp'.status = 200
          /\ now > token.iat + TokenTTL =>
               (authResp'.status = 401 /\ authResp'.error = "Invalid token")]_vars

\* C3, amended: before iat + 24h the token verifies when it is the
\* superuser's or its account is still stored and active; after iat + 24h
\* every verify of it is answered "Invalid token".
C3_TokenExpiry ==
  [][\A token \in {held, Forged, NoToken} :
       (Verify(token) /\ token.kind = "signed")
       => /\ (now < token.iat + TokenTTL
               /\ (token.id = SuperId
                     \/ (token.id \in DOMAIN users /\ users[token.id].active)))
             => authResp'.status = 200
          /\ now > token.iat + TokenTTL =>
               (authResp'.status = 401 /\ authResp'.error = "Invalid token")]_vars

\* A stored, active account's token refused after its 24 hours.
C3_Witness ==
  /\ authReq.op = "verify"
  /\ authReq.token.kind = "signed"
  /\ authReq.token.id \in DOMAIN users
  /\ users[authReq.token.id].active
  /\ now > authReq.token.iat + TokenTTL
  /\ authResp.status = 401
  /\ authResp.error = "Invalid token"

\* C4: a login with the superuser pair is answered 200 with a token for the
\* fixed id, name and role, and leaves the store and the failure counters as
\* they were, whatever the store holds.
C4_SuperuserLogin ==
  [][\A username \in Usernames, password \in Passwords :
       (Login(username, password) /\ username = "admin" /\ password = "admin123")
       => /\ authResp'.status = 200
          /\ authResp'.token.kind = "signed"
          /\ authResp'.token.id = "admin-user"
          /\ authResp'.token.username = "admin"
          /\ authResp'.token.role = "admin"
          /\ authResp'.token.exp = now + TokenTTL
          /\ users' = users
          /\ streak' = streak]_vars

\* The superuser logs in while a stored account of the same name is locked.
C4_Witness ==
  /\ authReq.op = "login"
  /\ authReq.username = "admin"
  /\ authReq.password = "admin123"
  /\ authResp.status = 200
  /\ \E id \in DOMAIN users : users[id].username = "admin" /\ InLockWindow(id)

\* ----------------------------------------------------------- blogs: claims

\* The image files that some Blog record refers to.
ReferencedFiles == {blogs[id].image : id \in DOMAIN blogs}

\* C7: every file in blog-images is the image of an existing Blog record.
C7_NoOrphanFile == files \subseteq ReferencedFiles

\* C8: a delete of an existing blog is answered 200 and removes the record;
\* with an image set the image file is gone afterwards and nothing else on
\* disk changes, without image the handler makes no file operation.
C8_DeleteRemovesImage ==
  [][\A id \in BlogIds :
       (DeleteBlog(id) /\ id \in DOMAIN blogs)
       => /\ blogResp'.status = 200
          /\ id \notin DOMAIN blogs'
          /\ \A other \in DOMAIN blogs \ {id} :
               other \in DOMAIN blogs' /\ blogs'[other] = blogs[other]
          /\ IF blogs[id].image # NoFile
             THEN /\ blogs[id].image \notin files'
                  /\ files' = files \ {blogs[id].image}
             ELSE /\ files' = files
                  /\ blogResp'.removed = {}]_vars

\* A delete that removed the image file of the blog it deleted.
C8_Witness ==
  /\ blogReq.op = "delete"
  /\ blogResp.status = 200
  /\ blogResp.removed # {}
  /\ blogReq.id \notin DOMAIN blogs
  /\ blogResp.removed \cap files = {}

\* C9: a create or update whose file part has a media type that does not
\* start with image/ is refused with "Only image files are allowed!"; nothing
\* is written to blog-images and no Blog record is created or changed.
C9_NonImageRefused ==
  [][(/\ blogReq'.op \in {"create", "update"}
      /\ blogReq'.mimetype # NoUpload.mimetype
      /\ ~StartsWith(blogReq'.mimetype, <<"image", "/">>))
     => /\ blogResp'.error = "Only image files are allowed!"
        /\ blogResp'.stored = {}
        /\ blogResp'.removed = {}
        /\ files' = files
        /\ blogs' = blogs]_vars

\* A text/plain upload refused while blogs and files exist.
C9_Witness ==
  /\ blogReq.mimetype = <<"text", "/", "plain">>
  /\ blogResp.error = "Only image files are allowed!"
  /\ blogResp.status = 500
  /\ DOMAIN blogs # {}
  /\ files # {}

\* ------------------------------------------- counters and filenames: claims

\* C5: no step lowers the stored views of a blog.
C5_ViewsNeverDecrease ==
  [][\A id \in DOMAIN blogs :
       id \in DOMAIN blogs' => blogs'[id].views >= blogs[id].views]_vars

\* C6: a download request that is not answered with the file leaves every
\* downloadCount as it was.
C6_CountOnlyOnSuccess ==
  [][(nlReq'.op = "download" /\ nlResp'.status # 200) => uploads' = uploads]_vars

\* C10: no two uploads that multer is writing at the same time were given the
\* same stored filename.
C10_DistinctFilenames ==
  \A i, j \in 1..Len(writing) : i # j => writing[i] # writing[j]

\* ----------------------------------------------------- testimonials: claims

\* C11: every stored Testimonial has a rating from 1 to 5, and a create whose
\* body carries a rating outside that range is refused with 400 and stores
\* nothing.
C11_RatingInRange ==
  /\ [](\A id \in DOMAIN testimonials :
          testimonials[id].rating >= 1 /\ testimonials[id].rating <= 5)
  /\ [][\A body \in CreateBodies :
          (/\ CreateTestimonial(body)
           /\ Has(body, "rating")
           /\ (body.rating < 1 \/ body.rating > 5))
          => (/\ tResp'.status = 400
              /\ testimonials' = testimonials)]_vars

\* A create was refused for its rating while a testimonial whose rating an
\* update has set is stored.
C11_Witness ==
  /\ tReq.op = "create"
  /\ tResp.error = "Rating must be between 1 and 5"
  /\ tPrev.op = "update"
  /\ tPrev.status = 200
  /\ \E id \in DOMAIN testimonials : testimonials[id].rating = 5

\* C12: two toggle-active requests on a testimonial, one after the other,
\* leave it as it was before the first; the same for toggle-featured.
C12_ToggleTwice ==
  \A op \in {"toggle-active", "toggle-featured"} :
    (/\ tReq.op = op /\ tResp.status = 200
     /\ tPrev.op = op /\ tPrev.status = 200
     /\ tPrev.id = tReq.id)
    => testimonials[tReq.id] = tPrev.before.doc

\* Two toggle-active requests in a row on a testimonial that was inactive.
C12_Witness ==
  /\ tReq.op = "toggle-active" /\ tResp.status = 200
  /\ tPrev.op = "toggle-active" /\ tPrev.status = 200
  /\ tPrev.id = tReq.id
  /\ ~tPrev.before.doc.active
  /\ ~testimonials[tReq.id].active

C14_RepliedMarksRead ==
  (sReq.op = "replied" /\ sReq.flag /\ sReq.before.found /\ sResp.status = 200)
  => /\ submissions[sReq.id].replied
     /\ submissions[sReq.id].read
     /\ submissions[sReq.id].priority = sReq.before.doc.priority

\* A submission that was unread has been marked replied.
C14_Witness ==
  /\ sReq.op = "replied" /\ sReq.flag /\ sResp.status = 200
  /\ ~sReq.before.doc.read
  /\ submissions[sReq.id].read

\* ---------------------------------------- newsletter subscribers: claims

\* C15: a subscribe of an address whose subscriber document exists with
\* unsubscribed = false is answered 400 'Email is already subscribed' and
\* leaves the collection as it was.
C15_AlreadySubscribed ==
  [][\A email \in SubscriberEmails :
       (/\ Subscribe(email)
        /\ \E id \in DOMAIN subscribers :
             /\ subscribers[id].email = LowerCase(email)
             /\ ~subscribers[id].unsubscribed)
       => (/\ subResp'.status = 400
           /\ subResp'.error = "Email is already subscribed"
           /\ subscribers' = subscribers)]_vars

\* A subscribe was refused for an address that is subscribed, while a second
\* subscriber is stored.
C15_Witness ==
  /\ subReq.op = "subscribe"
  /\ Cardinality(DOMAIN subscribers) = 2
  /\ subResp.error = "Email is already subscribed"
  /\ subReq.before.found
  /\ \E id \in DOMAIN subscribers :
       subscribers[id].email = <<"a", "@", "x">> /\ ~subscribers[id].unsubscribed

\* C16: a subscribe of an address whose document is unsubscribed is answered
\* 200, leaves that document with unsubscribed = false and no unsubscribedAt,
\* and leaves one document for the address.
C16_Resubscribe ==
  (subReq.op = "subscribe" /\ subReq.before.found /\ subReq.before.doc.unsubscribed)
  => /\ subResp.status = 200
     /\ subReq.before.id \in DOMAIN subscribers
     /\ ~subscribers[subReq.before.id].unsubscribed
     /\ subscribers[subReq.before.id].unsubscribedAt = NoTime
     /\ Cardinality({id \in DOMAIN subscribers :
                       subscribers[id].email = subReq.before.doc.email}) = 1

\* An address that was unsubscribed at hour 1 has subscribed again.
C16_Witness ==
  /\ subReq.op = "subscribe" /\ subResp.status = 200
  /\ subReq.before.found
  /\ subReq.before.doc.unsubscribed
  /\ subReq.before.doc.unsubscribedAt = 1
  /\ ~subscribers[subReq.before.id].unsubscribed

\* C18: a send that selected recipients has recorded a campaign, and no
\* recorded campaign is pending.
C18_SendRecordsCampaign ==
  /\ (subReq.op = "send" /\ subReq.recipients > 0) => Len(campaigns) > 0
  /\ \A i \in 1..Len(campaigns) : campaigns[i].status \in {"sent", "failed"}

\* ------------------------------------------------ listing of blogs: claims

\* The blogs of the collection that match the status filter of the last query.
Matched ==
  SelectSeq(listed, LAMBDA b : listReq.status = Absent \/ b.status = listReq.status)

\* C17: with N blogs matching the filter, a listing with page p and limit l
\* returns the blogs at positions (p-1)*l+1 .. min(p*l, N) of the sorted match
\* list, totalBlogs = N and totalPages = the least k with k*l >= N.
C17_Pagination ==
  listResp.status = 200 =>
    LET N == Len(Matched)
        p == listReq.page
        l == listReq.limit
        first == (p - 1) * l + 1
        last == IF p * l < N THEN p * l ELSE N
        count == IF last >= first THEN last - first + 1 ELSE 0
    IN  /\ listResp.blogs = [i \in 1..count |-> Matched[first + i - 1].key]
        /\ listResp.totalBlogs = N
        /\ listResp.totalPages * l >= N
        /\ (listResp.totalPages - 1) * l < N
        /\ listResp.totalPages >= 0

\* limit = 10, page = 2 on 25 matching blogs: blogs 11 to 20, three pages.
C17_Witness ==
  /\ listResp.status = 200
  /\ Len(Matched) = 25
  /\ listReq.limit = 10
  /\ listReq.page = 2
  /\ listResp.blogs = [i \in 1..10 |-> 10 + i]
  /\ listResp.totalPages = 3

\* -------------------------------------------------- error handling: claims

\* C19: a per-id testimonial request whose id names no document is answered
\* 404 when the id is well-formed and 400 when it is malformed, and stores no
\* document under that id.
C19_MissingIdNotFound ==
  (/\ tReq.op \in {"get", "update", "delete", "toggle-active", "toggle-featured"}
   /\ ~tReq.before.found)
  => /\ tResp.status = IF tReq.id = BadId THEN 400 ELSE 404
     /\ tReq.id \notin DOMAIN testimonials

\* C20: a create of a blog whose body lacks a required field is answered 400
\* and stores no document.
C20_CreateInvalid400 ==
  [][\A payload \in Payloads :
       (/\ CreateBlog(payload, NoUpload, 0)
        /\ \E field \in RequiredFields : payload[field] = Absent)
       => (/\ blogResp'.status = 400
           /\ blogs' = blogs)]_vars

\* ------------------------------------------ blogs: image swap, publishDate

\* C21: an update that is not answered 200 has removed no stored image, and
\* the image of the record it named, if it has one, is on disk.
C21_OldImageKeptOnFailure ==
  (blogReq.op = "update" /\ blogResp.status # 200)
  => /\ blogResp.removed = {}
     /\ (blogReq.id \in DOMAIN blogs /\ blogs[blogReq.id].image # NoFile)
        => blogs[blogReq.id].image \in files

\* C22: once a Blog has a publishDate, a create or update whose body carries
\* no publishDate leaves it as it is (no body tried carries one).
C22_PublishDateKept ==
  [][\A id \in DOMAIN blogs :
       (id \in DOMAIN blogs' /\ blogs[id].publishDate # NoTime)
       => blogs'[id].publishDate = blogs[id].publishDate]_vars

\* ----------------------------------------- contact submissions: invariant

\* C24: every stored ContactSubmission that is replied is read.
C24_RepliedImpliesRead ==
  \A id \in DOMAIN submissions : submissions[id].replied => submissions[id].read

\* C23: every record the public testimonial listing or the featured listing
\* returned has active = true, whatever the query the caller sent.
C23_ListedAreActive ==
  \A i \in DOMAIN tList.docs : tList.docs[i].doc.active = TRUE

\* A public listing asked with active=false returned a record while an
\* inactive testimonial is stored.
C23_Witness ==
  /\ tList.op = "public"
  /\ tList.query.active = "false"
  /\ Len(tList.docs) >= 1
  /\ \E id \in DOMAIN testimonials : ~testimonials[id].active

\* C25: under every interleaving of like requests on one Blog, the stored
\* likes is the initial value plus the number of likes the store has applied,
\* each answered 200 or about to be, and no two of them carry the same value.
C25_NoLostLike ==
  LET id == BlogIdPool[1]
      applied == {c \in Clients : likePc[c].at = "updated" /\ likePc[c].status = 200}
  IN  /\ blogs[id].likes = likeOrig + Len(likeSeen) + Cardinality(applied)
      /\ \A i, j \in DOMAIN likeSeen : i # j => likeSeen[i] # likeSeen[j]
      /\ \A c \in applied : \A i \in DOMAIN likeSeen : likePc[c].likes # likeSeen[i]
      /\ \A c, d \in applied : c # d => likePc[c].likes # likePc[d].likes

\* Two like requests on the same Blog are both between their update and their
\* response, after an earlier like was answered.
C25_Witness ==
  /\ \A c \in Clients : likePc[c].at = "updated" /\ likePc[c].status = 200
  /\ Len(likeSeen) >= 1
  /\ blogs[BlogIdPool[1]].likes = likeOrig + 3

\* C26: once two toggle-active requests for the same Testimonial have both
\* been answered 200, its active is what it was before them, under every
\* interleaving of their findById and save.
C26_TwoTogglesRestore ==
  \A id \in DOMAIN testimonials :
    (tgDone[id] = 2 /\ TogglesLoaded(id) = {})
    => testimonials[id].active = tgOrig[id].active

====
